---- MODULE Spec2Model ----
(***************************************************************************)
(* Model of yt_view_count.py: the YouTubeDataProcessor (title parsing,     *)
(* filtering, statistics fetch, per-series aggregation), the per-sheet     *)
(* ranking and update planning of process_single_sheet, and the run loop   *)
(* of main with its closing notification logic.                            *)
(*                                                                         *)
(* Text is modelled as a sequence of glyphs, one glyph per character.  An  *)
(* ASCII character is written as itself; a non-ASCII character is written  *)
(* by a transliterated name ("di" for U+7B2C, "hua" for U+8A71, ...).      *)
(* "x in title" of Python is Contains(title, x): a contiguous run.         *)
(*                                                                         *)
(* Python's dynamically typed values are tagged records:                   *)
(*   None -> [none |-> TRUE], an int n -> [int |-> n],                     *)
(*   a str s -> [str |-> s], a non-integral float -> [float10 |-> tenths]. *)
(***************************************************************************)
EXTENDS Integers, Sequences, FiniteSets, TLC

-----------------------------------------------------------------------------
(* Python values *)

PyNone == [none |-> TRUE]
PyInt(n) == [int |-> n]
PyStr(s) == [str |-> s]
PyFloat10(t) == [float10 |-> t]

IsNone(x) == "none" \in DOMAIN x
IsInt(x) == "int" \in DOMAIN x

\* the value of a Python number in tenths, so that int and float compare
Tenths(x) == IF "int" \in DOMAIN x THEN 10 * x.int ELSE x.float10

IsNumber(x) == "int" \in DOMAIN x \/ "float10" \in DOMAIN x

-----------------------------------------------------------------------------
(* Text helpers *)

\* Python's "needle in hay" on strings
Contains(hay, needle) ==
    \E i \in 0..(Len(hay) - Len(needle)) :
        \A k \in 1..Len(needle) : hay[i + k] = needle[k]

\* \s of the patterns: the space and the ideographic space
Whitespace == {" ", "ideo_sp"}

DigitGlyphs == <<"0","1","2","3","4","5","6","7","8","9">>
Digits == {"0","1","2","3","4","5","6","7","8","9"}
IsDigit(g) == g \in Digits
DigitVal(g) ==
    CASE g = "0" -> 0 [] g = "1" -> 1 [] g = "2" -> 2 [] g = "3" -> 3
      [] g = "4" -> 4 [] g = "5" -> 5 [] g = "6" -> 6 [] g = "7" -> 7
      [] g = "8" -> 8 [] g = "9" -> 9

\* first index >= i of title that is not whitespace (Len+1 if none)
RECURSIVE SkipSpace(_, _)
SkipSpace(title, i) ==
    IF i <= Len(title) /\ title[i] \in Whitespace
    THEN SkipSpace(title, i + 1) ELSE i

\* index after the greedy \d+ run that starts at i (i itself if no digit)
RECURSIVE DigitsEnd(_, _)
DigitsEnd(title, i) ==
    IF i <= Len(title) /\ IsDigit(title[i])
    THEN DigitsEnd(title, i + 1) ELSE i

\* decimal value of the digits title[i..j-1]
RECURSIVE DecValue(_, _, _)
DecValue(title, i, j) ==
    IF j <= i THEN 0
    ELSE 10 * DecValue(title, i, j - 1) + DigitVal(title[j - 1])

-----------------------------------------------------------------------------
(* parse_episode_number *)

\* The ordered patterns.  lit: the literal prefix, each place holding the
\* glyphs that match it under re.IGNORECASE; dot: an optional "." may stand
\* between prefix and number ([\.]?); tail: the glyphs one of which must
\* follow the number (empty: nothing required).
patterns == <<
    [lit |-> <<{"di"}>>, dot |-> FALSE, tail |-> {"ji", "hua"}],
    [lit |-> <<{"e","E"},{"p","P"},{"i","I"},{"s","S"},{"o","O"},{"d","D"},
               {"e","E"}>>, dot |-> TRUE, tail |-> {}],
    [lit |-> <<{"th_to"},{"th_o"},{"th_no"},{"th_tho"},{"th_ii"},
               {"th_maiek"}>>, dot |-> FALSE, tail |-> {}],
    [lit |-> <<{"t","T"},{"a_circ_dot","A_circ_dot"},{"p","P"}>>,
     dot |-> FALSE, tail |-> {}],
    [lit |-> <<{"m","M"},{"i","I"},{"s","S"},{"i","I"}>>,
     dot |-> FALSE, tail |-> {}],
    [lit |-> <<{"e","E"},{"p","P"},{"i","I"},{"s","S"},{"o","O"},{"d","D"}>>,
     dot |-> TRUE, tail |-> {}],
    [lit |-> <<{"e","E"},{"p","P"}>>, dot |-> TRUE, tail |-> {}] >>

\* the literal prefix of pat stands at title[i..], ignoring case
LitAt(title, i, pat) ==
    /\ i + Len(pat.lit) - 1 <= Len(title)
    /\ \A k \in 1..Len(pat.lit) : title[i + k - 1] \in pat.lit[k]

\* after the prefix: \s*, then for a dot pattern an optional "." and \s*
DotSkip(title, a, pat) ==
    IF pat.dot /\ a <= Len(title) /\ title[a] = "."
    THEN SkipSpace(title, a + 1) ELSE a

\* where the captured number starts when pat matches at i
NumStart(title, i, pat) ==
    DotSkip(title, SkipSpace(title, i + Len(pat.lit)), pat)

\* e: the end of the \d+ run; the end after the optional (?:\.\d+)
FracEnd(title, e) ==
    IF e + 1 <= Len(title) /\ title[e] = "." /\ IsDigit(title[e + 1])
    THEN DigitsEnd(title, e + 1) ELSE e

\* end (exclusive) of the greedy \d+(?:\.\d+)? that starts at s
NumEnd(title, s) == FracEnd(title, DigitsEnd(title, s))

\* what must follow the number stands at t
TailOk(title, t, pat) ==
    pat.tail # {} => (t <= Len(title) /\ title[t] \in pat.tail)

\* a number starts at s and the pattern's tail follows it
NumOk(title, s, pat) ==
    /\ s <= Len(title)
    /\ IsDigit(title[s])
    /\ TailOk(title, SkipSpace(title, NumEnd(title, s)), pat)

\* pat matches with its first glyph at i
MatchAt(title, i, pat) ==
    /\ LitAt(title, i, pat)
    /\ NumOk(title, NumStart(title, i, pat), pat)

Matches(title, pat) == \E i \in 1..Len(title) : MatchAt(title, i, pat)

\* re.search: the leftmost place where pat matches
FirstMatch(title, pat) ==
    CHOOSE i \in 1..Len(title) :
        /\ MatchAt(title, i, pat)
        /\ \A j \in 1..(i - 1) : ~MatchAt(title, j, pat)

\* float(num_str), then int when it is whole
NumberOf(whole, frac) ==
    IF frac = 0 THEN PyInt(whole) ELSE PyFloat10(10 * whole + frac)

\* the number title[s..e-1], its \d+ run ending at m.  The fraction is read
\* to one digit (the titles of the model carry no more).
ValueOf(title, s, m, e) ==
    NumberOf(DecValue(title, s, m),
             IF e > m THEN DigitVal(title[m + 1]) ELSE 0)

ValueAt(title, s) == ValueOf(title, s, DigitsEnd(title, s), NumEnd(title, s))

\* group 1 of the leftmost match of pat, converted
MatchValue(title, pat) ==
    ValueAt(title, NumStart(title, FirstMatch(title, pat), pat))

\* the first pattern, in priority order, that matches
FirstPattern(title) ==
    CHOOSE p \in 1..Len(patterns) :
        /\ Matches(title, patterns[p])
        /\ \A q \in 1..(p - 1) : ~Matches(title, patterns[q])

parse_episode_number(title) ==
    IF \E p \in 1..Len(patterns) : Matches(title, patterns[p])
    THEN MatchValue(title, patterns[FirstPattern(title)])
    ELSE PyNone

-----------------------------------------------------------------------------
(* json.loads, on the JSON texts an offset cell can hold: numbers, strings,  *)
(* true/false/null and arrays of these.                                      *)

PyBool(b) == [bool |-> b]
PyList(s) == [list |-> s]

JsonFail == [ok |-> FALSE]
JsonOk(v, n) == [ok |-> TRUE, val |-> v, next |-> n]

RECURSIVE SkipJsonWs(_, _)
SkipJsonWs(t, i) ==
    IF i <= Len(t) /\ t[i] = " " THEN SkipJsonWs(t, i + 1) ELSE i

WordAt(t, i, w) ==
    /\ i + Len(w) - 1 <= Len(t)
    /\ \A k \in 1..Len(w) : t[i + k - 1] = w[k]

\* the number t[s..], its integer part ending at m: with a fraction when
\* "." and a digit follow
NumberAt(t, s, m, sign) ==
    IF m = s THEN JsonFail
    ELSE IF m + 1 <= Len(t) /\ t[m] = "." /\ IsDigit(t[m + 1])
    THEN JsonOk(PyFloat10(sign * (10 * DecValue(t, s, m) + DigitVal(t[m + 1]))),
                DigitsEnd(t, m + 1))
    ELSE JsonOk(PyInt(sign * DecValue(t, s, m)), m)

\* the integer part at s: "0", or a run of digits without a leading zero
IntPart(t, s, sign) ==
    NumberAt(t, s,
             IF s <= Len(t) /\ t[s] = "0" THEN s + 1 ELSE DigitsEnd(t, s),
             sign)

\* a JSON number at i, after an optional "-"
ParseNumber(t, i) ==
    IF i <= Len(t) /\ t[i] = "-" THEN IntPart(t, i + 1, -1)
    ELSE IntPart(t, i, 1)

\* a JSON string at i (t[i] is the opening quote); no escapes
ClosingQuote(t, i) ==
    CHOOSE q \in (i + 1)..Len(t) :
        /\ t[q] = "\""
        /\ \A r \in (i + 1)..(q - 1) : t[r] # "\""

StringTo(t, i, q) == JsonOk(PyStr(SubSeq(t, i + 1, q - 1)), q + 1)

ParseString(t, i) ==
    IF \E q \in (i + 1)..Len(t) : t[q] = "\""
    THEN StringTo(t, i, ClosingQuote(t, i))
    ELSE JsonFail

RECURSIVE ParseAt(_, _)
RECURSIVE ParseElems(_, _, _)
RECURSIVE ElemsAfter(_, _, _, _)

\* "[" stands at i; j is the next place that is not whitespace
ArrayAt(t, i, j) ==
    IF j <= Len(t) /\ t[j] = "]" THEN JsonOk(PyList(<<>>), j + 1)
    ELSE ParseElems(t, i + 1, <<>>)

\* the JSON value that starts at i, which is not whitespace
ParseAt(t, i) ==
    IF i > Len(t) THEN JsonFail
    ELSE IF t[i] = "[" THEN ArrayAt(t, i, SkipJsonWs(t, i + 1))
    ELSE IF t[i] = "\"" THEN ParseString(t, i)
    ELSE IF WordAt(t, i, <<"t","r","u","e">>) THEN JsonOk(PyBool(TRUE), i + 4)
    ELSE IF WordAt(t, i, <<"f","a","l","s","e">>)
    THEN JsonOk(PyBool(FALSE), i + 5)
    ELSE IF WordAt(t, i, <<"n","u","l","l">>) THEN JsonOk(PyNone, i + 4)
    ELSE ParseNumber(t, i)

ParseValue(t, i0) == ParseAt(t, SkipJsonWs(t, i0))

\* the element v was read; j is the next place that is not whitespace
ElemsAfter(t, acc, v, j) ==
    IF j > Len(t) THEN JsonFail
    ELSE IF t[j] = "," THEN ParseElems(t, j + 1, Append(acc, v.val))
    ELSE IF t[j] = "]" THEN JsonOk(PyList(Append(acc, v.val)), j + 1)
    ELSE JsonFail

ElemRead(t, acc, v) ==
    IF ~v.ok THEN JsonFail
    ELSE ElemsAfter(t, acc, v, SkipJsonWs(t, v.next))

\* the elements of an array from i on, acc being those already read
ParseElems(t, i, acc) == ElemRead(t, acc, ParseValue(t, i))

\* v: the value read from the start; nothing but whitespace may follow
Complete(t, v) ==
    IF v.ok /\ SkipJsonWs(t, v.next) = Len(t) + 1 THEN v ELSE JsonFail

\* json.loads(text): the value, or JsonFail when it raises
json_loads(t) == Complete(t, ParseValue(t, 1))

\* bool(x) of Python
Truthy(x) ==
    IF "none" \in DOMAIN x THEN FALSE
    ELSE IF "bool" \in DOMAIN x THEN x.bool
    ELSE IF "int" \in DOMAIN x THEN x.int # 0
    ELSE IF "float10" \in DOMAIN x THEN x.float10 # 0
    ELSE IF "str" \in DOMAIN x THEN Len(x.str) > 0
    ELSE IF "list" \in DOMAIN x THEN Len(x.list) > 0
    ELSE TRUE

-----------------------------------------------------------------------------
(* is_in_offset, is_ignored_keyword *)

\* values that order against an episode index (bool is an int in Python)
Orders(x) ==
    "int" \in DOMAIN x \/ "float10" \in DOMAIN x \/ "bool" \in DOMAIN x

OrderTenths(x) ==
    IF "bool" \in DOMAIN x THEN (IF x.bool THEN 10 ELSE 0) ELSE Tenths(x)

\* "start, end = offset_range" succeeds: an iterable of exactly two
Unpacks(r) ==
    \/ "list" \in DOMAIN r /\ Len(r.list) = 2
    \/ "str" \in DOMAIN r /\ Len(r.str) = 2

UnpackAt(r, k) ==
    IF "list" \in DOMAIN r THEN r.list[k] ELSE PyStr(<<r.str[k]>>)

\* start <= ep_idx <= end, False on every exception of the comparison
Between(start, ep_idx, end) ==
    IF ~Orders(start) THEN FALSE
    ELSE IF ~(OrderTenths(start) <= Tenths(ep_idx)) THEN FALSE
    ELSE IF ~Orders(end) THEN FALSE
    ELSE Tenths(ep_idx) <= OrderTenths(end)

\* the range check for the parsed ep_idx; False when the title parses to
\* nothing and on every exception of the unpacking
RangeHolds(ep_idx, offset_range) ==
    IF IsNone(ep_idx) THEN FALSE
    ELSE IF ~Unpacks(offset_range) THEN FALSE
    ELSE Between(UnpackAt(offset_range, 1), ep_idx, UnpackAt(offset_range, 2))

\* the range part of is_in_offset (offset_range is not None)
InRange(title, offset_range) ==
    RangeHolds(parse_episode_number(title), offset_range)

\* is_in_offset(title, offset_range, offset_string); PyNone: not given
is_in_offset(title, offset_range, offset_string) ==
    IF ~IsNone(offset_string) /\ ~Contains(title, offset_string.str)
    THEN FALSE
    ELSE IF ~IsNone(offset_range) THEN InRange(title, offset_range)
    ELSE TRUE

ignore_keywords == <<
    <<"yu","gao">>,
    <<"P","V">>,
    <<"N","C","E","D">>,
    <<"N","C","O","P">>,
    <<"O","P">>,
    <<"E","D">>,
    <<"C","r","e","d","i","t","l","e","s","s">>,
    <<"T","r","a","i","l","e","r">>,
    <<"T","e","a","s","e","r">>,
    <<"R","e","c","a","p">>,
    <<"S","p","e","c","i","a","l">>,
    <<"te","bie","pian">>,
    <<"zong","ji","pian">>,
    <<"quan","ji","ma","la","song">>,
    <<"S","e","m","u","a"," ","E","p","i","s","o","d","e">>,
    <<"C","h","i","a"," ","s","e_hook"," ","c","u_hook","a"," ","D","V"," ",
      "l","o_circ_grave","n","g"," ","t","i","e_circ_acute","n","g">>,
    <<"C","M">>,
    <<"di","er","ji4","zhi","zuo","jue","ding">>,
    <<"jing","hua","chong","wen">>,
    <<"P","r","e","v","i","e","w">> >>

\* keyword -> the titles' substrings that suppress it
ignore_keywords_exceptions ==
    [kw \in {<<"C","M">>} |->
        << <<"t","e","s","t","C","M","dong","hua4","ming","cheng">> >>]

\* the loop over the keywords with a table of exceptions that ignores them
IsIgnored_no_exceptions(title, keywords, exceptions) ==
    \E n \in 1..Len(keywords) : Contains(title, keywords[n])

\* the loop of is_ignored_keyword over self.ignore_keywords, with
\* self.ignore_keywords_exceptions
IsIgnored(title, keywords, exceptions) ==
    \E n \in 1..Len(keywords) :
        LET kw == keywords[n]
            excepted ==
                /\ kw \in DOMAIN exceptions
                /\ \E x \in 1..Len(exceptions[kw]) :
                       Contains(title, exceptions[kw][x])
        IN  ~excepted /\ Contains(title, kw)

is_ignored_keyword(title) ==
    IsIgnored(title, ignore_keywords, ignore_keywords_exceptions)

-----------------------------------------------------------------------------
(* The video platform, as the responses it gives.                            *)
(* A response: [status, reasons], reasons being the "reason" fields of the   *)
(* error body (empty when the body is no such JSON).                         *)

NoData == PyStr("---")
\* the "delisted" marker the removed playlist's result carries in every field
Delisted == PyStr("delisted")
Removed == PyStr("REMOVED")

\* the provider's limit of ids per statistics request (50 in the program,
\* scaled down so that a request list of a few ids spans several batches)
BatchSize == 2

Min(a, b) == IF a <= b THEN a ELSE b

check_quota(res) ==
    /\ res.status = 403
    /\ res.reasons \cap {"quotaExceeded", "dailyLimitExceeded"} # {}

\* a link is None or a URL given by its parsed query string
get_playlist_id(url) ==
    IF IsNone(url) THEN PyNone
    ELSE IF "list" \in DOMAIN url.query THEN PyStr(url.query.list[1])
    ELSE PyNone

\* The page loop of get_playlist_items.  pages: the provider's answers to
\* the successive page requests; k: the request being issued; q: the
\* exhausted flag when it is issued.  after counts requests issued with
\* the flag already set.
RECURSIVE FetchPages(_, _, _, _, _)
FetchPages(pages, k, items, q, after) ==
    LET res == pages[k]
        n == after + (IF q THEN 1 ELSE 0)
        got == SelectSeq(res.items, LAMBDA it : Truthy(it.id))
    IN  IF check_quota(res)
        THEN [ret |-> PyNone, quota |-> TRUE, requests |-> k, after |-> n]
        ELSE IF res.status = 404
        THEN [ret |-> Removed, quota |-> q, requests |-> k, after |-> n]
        ELSE IF res.status # 200
        THEN [ret |-> PyList(<<>>), quota |-> q, requests |-> k, after |-> n]
        ELSE IF res.next
        THEN FetchPages(pages, k + 1, items \o got, q, n)
        ELSE [ret |-> PyList(items \o got), quota |-> q,
              requests |-> k, after |-> n]

get_playlist_items(quota_exceeded, pages) ==
    IF quota_exceeded
    THEN [ret |-> PyNone, quota |-> TRUE, requests |-> 0, after |-> 0]
    ELSE FetchPages(pages, 1, <<>>, quota_exceeded, 0)

NumBatches(video_ids) == (Len(video_ids) + BatchSize - 1) \div BatchSize

BatchOf(video_ids, b) ==
    SubSeq(video_ids, (b - 1) * BatchSize + 1,
           Min(b * BatchSize, Len(video_ids)))

\* the sample of one returned item: None for a premiere still to come and
\* for a missing or empty viewCount, else int(viewCount)
SampleOf(item) ==
    IF item.sched = "future" THEN PyNone
    ELSE IF Truthy(item.viewCount)
    THEN PyInt(DecValue(item.viewCount.str, 1, Len(item.viewCount.str) + 1))
    ELSE PyNone

\* stats_map after the items of one 200 response are stored
StoreBatch(stats_map, batch, yt) ==
    LET known == {batch[i] : i \in 1..Len(batch)} \cap DOMAIN yt.video
    IN  [v \in DOMAIN stats_map \cup known |->
            IF v \in known THEN SampleOf(yt.video[v]) ELSE stats_map[v]]

\* The batch loop of get_video_stats.  yt.status[b]: the provider's answer
\* to the b-th request; yt.video: the items it returns for the ids it knows.
RECURSIVE FetchStats(_, _, _, _, _, _)
FetchStats(video_ids, yt, b, stats_map, q, after) ==
    IF b > NumBatches(video_ids)
    THEN [ret |-> stats_map, quota |-> q, requests |-> b - 1, after |-> after]
    ELSE LET res == yt.status[b]
             n == after + (IF q THEN 1 ELSE 0)
         IN  IF check_quota(res)
             THEN [ret |-> stats_map, quota |-> TRUE,
                   requests |-> b, after |-> n]
             ELSE IF res.status = 200
             THEN FetchStats(video_ids, yt, b + 1,
                             StoreBatch(stats_map, BatchOf(video_ids, b), yt),
                             q, n)
             ELSE FetchStats(video_ids, yt, b + 1, stats_map, q, n)

\* get_video_stats without its test of the flag on entry
get_video_stats_unguarded(quota_exceeded, video_ids, yt) ==
    IF Len(video_ids) = 0
    THEN [ret |-> <<>>, quota |-> quota_exceeded, requests |-> 0, after |-> 0]
    ELSE FetchStats(video_ids, yt, 1, <<>>, quota_exceeded, 0)

get_video_stats(quota_exceeded, video_ids, yt) ==
    IF quota_exceeded \/ Len(video_ids) = 0
    THEN [ret |-> <<>>, quota |-> quota_exceeded, requests |-> 0, after |-> 0]
    ELSE FetchStats(video_ids, yt, 1, <<>>, quota_exceeded, 0)

\* stats.get(vid)
StatsGet(stats, vid) == IF vid \in DOMAIN stats THEN stats[vid] ELSE PyNone

-----------------------------------------------------------------------------
(* process_anime *)

\* the offset cell parsed: the value of json.loads when it succeeds (range),
\* else the text itself (string)
OffsetOf(offset_str, j) ==
    IF j.ok THEN [range |-> j.val, string |-> PyNone]
    ELSE [range |-> PyNone, string |-> offset_str]

ParseOffset(offset_str) ==
    IF Truthy(offset_str) THEN OffsetOf(offset_str, json_loads(offset_str.str))
    ELSE [range |-> PyNone, string |-> PyNone]

\* the item passes the keyword filter and the offset filters
Survives(title, offset_range, offset_string) ==
    /\ ~is_ignored_keyword(title)
    /\ ~(Truthy(offset_range) /\ ~is_in_offset(title, offset_range, PyNone))
    /\ ~(Truthy(offset_string) /\ ~is_in_offset(title, PyNone, offset_string))

ValidVideos(items, off) ==
    SelectSeq(items, LAMBDA it : Survives(it.title, off.range, off.string))

SortKeyOf(ep_idx) == IF IsNone(ep_idx) THEN 10 * 999999 ELSE Tenths(ep_idx)

SortKey(title) == SortKeyOf(parse_episode_number(title))

\* the place of the least key, the first such (the sort is stable)
FirstOf(keys) ==
    CHOOSE i \in DOMAIN keys :
        \A j \in DOMAIN keys :
            keys[i] < keys[j] \/ (keys[i] = keys[j] /\ i <= j)

\* index in valid_videos of sorted_videos[0]
FirstIndex(valid_videos) ==
    FirstOf([i \in 1..Len(valid_videos) |-> SortKey(valid_videos[i].title)])

ViewsOr0(views) == IF IsNone(views) THEN 0 ELSE views.int

RECURSIVE SumViews(_, _, _)
SumViews(valid_videos, stats, n) ==
    IF n = 0 THEN 0
    ELSE SumViews(valid_videos, stats, n - 1)
         + ViewsOr0(StatsGet(stats, valid_videos[n].id.str))

CountViews(valid_videos, stats) ==
    Cardinality({n \in 1..Len(valid_videos) :
                    ~IsNone(StatsGet(stats, valid_videos[n].id.str))})

\* the initial return value
InitialResult ==
    [avg |-> NoData, total |-> NoData, first |-> NoData,
     valid_count |-> PyInt(0), ep_count_update |-> PyNone]

RemovedResult ==
    [avg |-> Delisted, total |-> Delisted, first |-> Delisted,
     valid_count |-> Delisted, ep_count_update |-> Delisted]

\* the average taken over every surviving item instead of over the samples
ResultOf_per_item(valid_videos, total_views, valid_view_count, first_views) ==
    IF valid_view_count = 0 THEN InitialResult
    ELSE [avg |-> PyInt(total_views \div Len(valid_videos)),
          total |-> PyInt(total_views),
          first |-> IF IsNone(first_views) THEN NoData ELSE first_views,
          valid_count |-> PyInt(Len(valid_videos)),
          ep_count_update |-> PyNone]

\* the return value once the loop over sorted_videos has run.  The average
\* is int(total / count): the floor, for totals a float holds exactly
ResultOf(valid_videos, total_views, valid_view_count, first_views) ==
    IF valid_view_count = 0 THEN InitialResult
    ELSE [avg |-> PyInt(total_views \div valid_view_count),
          total |-> PyInt(total_views),
          first |-> IF IsNone(first_views) THEN NoData ELSE first_views,
          valid_count |-> PyInt(Len(valid_videos)),
          ep_count_update |-> PyNone]

\* the reduction of the fetched statistics (the code after the fetch)
Reduce(valid_videos, stats) ==
    ResultOf(valid_videos,
             SumViews(valid_videos, stats, Len(valid_videos)),
             CountViews(valid_videos, stats),
             StatsGet(stats, valid_videos[FirstIndex(valid_videos)].id.str))

Out(ret, q, requests, after, valid) ==
    [ret |-> ret, quota |-> q, requests |-> requests, after |-> after,
     valid |-> valid]

IdsOf(valid_videos) ==
    [i \in 1..Len(valid_videos) |-> valid_videos[i].id.str]

\* after get_video_stats returned st
AfterStats(pl, valid_videos, st) ==
    IF st.quota
    THEN Out(PyNone, TRUE, pl.requests + st.requests, pl.after + st.after,
             valid_videos)
    ELSE Out(Reduce(valid_videos, st.ret), st.quota,
             pl.requests + st.requests, pl.after + st.after, valid_videos)

\* after the filter left valid_videos
AfterFilter(env, pl, valid_videos) ==
    IF Len(valid_videos) = 0
    THEN Out(InitialResult, pl.quota, pl.requests, pl.after, <<>>)
    ELSE AfterStats(pl, valid_videos,
                    get_video_stats(pl.quota, IdsOf(valid_videos), env.yt))

\* after get_playlist_items returned pl
AfterPlaylist(anime_item, env, pl) ==
    IF pl.ret = Removed
    THEN Out(RemovedResult, pl.quota, pl.requests, pl.after, <<>>)
    ELSE IF ~Truthy(pl.ret)
    THEN Out(InitialResult, pl.quota, pl.requests, pl.after, <<>>)
    ELSE AfterFilter(env, pl,
                     ValidVideos(pl.ret.list, ParseOffset(anime_item.offset)))

\* process_anime(anime_item) against the provider env = [pages, yt];
\* ret is the return value (PyNone or the result record), quota the flag
\* afterwards, requests the requests issued, after those of them issued
\* with the flag already set, valid the items that survived filtering
process_anime(quota_exceeded, anime_item, env) ==
    IF quota_exceeded THEN Out(PyNone, TRUE, 0, 0, <<>>)
    ELSE IF ~Truthy(get_playlist_id(anime_item.link_url))
    THEN Out(PyNone, quota_exceeded, 0, 0, <<>>)
    ELSE AfterPlaylist(anime_item, env,
                       get_playlist_items(quota_exceeded, env.pages))

-----------------------------------------------------------------------------
(* Python dicts: the keys in insertion order, and the value of each *)

DictEmpty == [keys |-> <<>>, val |-> <<>>]
DictHas(d, k) == k \in DOMAIN d.val
DictGet(d, k, default) == IF k \in DOMAIN d.val THEN d.val[k] ELSE default
DictPut(d, k, v) ==
    IF k \in DOMAIN d.val
    THEN [keys |-> d.keys, val |-> [d.val EXCEPT ![k] = v]]
    ELSE [keys |-> Append(d.keys, k),
          val |-> [x \in DOMAIN d.val \cup {k} |->
                      IF x = k THEN v ELSE d.val[x]]]

-----------------------------------------------------------------------------
(* process_single_sheet: the local computation of its four phases.          *)
(* A cell reference is [col, row]; int(name_cell[1:]) is its row.  An empty  *)
(* cell value "" is PyStr(<<>>).                                             *)

RowOf(anime) == anime.name_cell.row

EmptyValue == PyStr(<<>>)

\* phase 1: global_comp_rank_cell_map after the series is seen
RecordComp(comp_map, anime) ==
    IF Truthy(anime.comp_rank_cell)
    THEN DictPut(comp_map, RowOf(anime), anime.comp_rank_cell)
    ELSE comp_map

\* phase 1: global_avg_sum_map after the series' stats are known
Accumulate(sum_map, row_idx, stats) ==
    IF ~IsNone(stats) /\ IsInt(stats.avg)
    THEN DictPut(sum_map, row_idx, DictGet(sum_map, row_idx, 0) + stats.avg.int)
    ELSE sum_map

\* phase 2: the entries that take part in the ranking
Rankable(item) == ~IsNone(item.stats) /\ IsInt(item.stats.avg)

valid_for_ranking(region_results) == SelectSeq(region_results, Rankable)

\* a descending sort that puts the later of two equal keys first
SortedPlace_reversing(keys, i) ==
    1 + Cardinality({j \in DOMAIN keys :
                        keys[j] > keys[i] \/ (keys[j] = keys[i] /\ j > i)})

\* place (from 1) of keys[i] after list.sort(reverse=True), which is stable
SortedPlace(keys, i) ==
    1 + Cardinality({j \in DOMAIN keys :
                        keys[j] > keys[i] \/ (keys[j] = keys[i] /\ j < i)})

AvgKeys(valid) == [i \in 1..Len(valid) |-> valid[i].stats.avg.int]

Max(S) == CHOOSE x \in S : \A y \in S : y <= x

\* rank_map of the sorted entries: row -> i + 1, a later entry of the same
\* row overwriting an earlier one
RankMapOf(valid, keys) ==
    [row \in {RowOf(valid[i].anime) : i \in 1..Len(valid)} |->
        Max({SortedPlace(keys, i) :
                i \in {j \in 1..Len(valid) : RowOf(valid[j].anime) = row}})]

RankMapOfValid(valid) == RankMapOf(valid, AvgKeys(valid))

RankMap(region_results) == RankMapOfValid(valid_for_ranking(region_results))

Update(cell, value) == [cell |-> cell, value |-> value]

\* phase 3, step 1: the rank update of a row
RankUpdate(anime, ranks) ==
    IF ~Truthy(anime.rank_cell) THEN <<>>
    ELSE IF RowOf(anime) \in DOMAIN ranks
    THEN <<Update(anime.rank_cell, PyInt(ranks[RowOf(anime)]))>>
    ELSE <<Update(anime.rank_cell, EmptyValue)>>

\* phase 3, step 2: the view updates of a row
ViewUpdates(anime, stats) ==
    (IF Truthy(anime.avg_view_cell)
     THEN <<Update(anime.avg_view_cell, stats.avg)>> ELSE <<>>)
    \o (IF Truthy(anime.total_view_cell)
        THEN <<Update(anime.total_view_cell, stats.total)>> ELSE <<>>)
    \o (IF Truthy(anime.first_view_cell)
        THEN <<Update(anime.first_view_cell, stats.first)>> ELSE <<>>)

\* the comparison this_region_ep_count >= current_max_ep
EpExceeds_or_equals(stats, max_map, row_idx) ==
    /\ IsInt(stats.valid_count)
    /\ stats.valid_count.int >= DictGet(max_map, row_idx, 0)

\* phase 3, step 3: this_region_ep_count > current_max_ep; the comparison
\* of the removed marker with a number raises and is passed over
EpExceeds(stats, max_map, row_idx) ==
    /\ IsInt(stats.valid_count)
    /\ stats.valid_count.int > DictGet(max_map, row_idx, 0)

EpUpdate(anime, stats, max_map) ==
    IF EpExceeds(stats, max_map, RowOf(anime)) /\ Truthy(anime.ep_count_cell)
    THEN <<Update(anime.ep_count_cell, stats.valid_count)>> ELSE <<>>

RowPlan(anime_name, row_idx, row_updates) ==
    [row_check_name |-> anime_name, target_row |-> row_idx,
     updates |-> row_updates]

\* updates_batch with the row's plan appended when it holds an update
WithPlan(batch, anime, row_updates) ==
    IF Len(row_updates) > 0
    THEN Append(batch, RowPlan(anime.anime_name, RowOf(anime), row_updates))
    ELSE batch

\* phase 3 that plans an entry without stats like one without data
PlanItem_null_as_no_data(anime, stats, ranks, acc) ==
    [batch |->
         WithPlan(acc.batch, anime,
                  RankUpdate(anime, ranks)
                  \o ViewUpdates(anime, IF IsNone(stats) THEN InitialResult
                                        ELSE stats)
                  \o EpUpdate(anime, IF IsNone(stats) THEN InitialResult
                                     ELSE stats, acc.max_map)),
     max_map |->
         IF ~IsNone(stats) /\ EpExceeds(stats, acc.max_map, RowOf(anime))
         THEN DictPut(acc.max_map, RowOf(anime), stats.valid_count.int)
         ELSE acc.max_map]

\* phase 3 for one entry; acc = [batch, max_map]
PlanItem(anime, stats, ranks, acc) ==
    IF IsNone(stats)
    THEN [batch |-> WithPlan(acc.batch, anime, RankUpdate(anime, ranks)),
          max_map |-> acc.max_map]
    ELSE [batch |->
              WithPlan(acc.batch, anime,
                       RankUpdate(anime, ranks) \o ViewUpdates(anime, stats)
                       \o EpUpdate(anime, stats, acc.max_map)),
          max_map |->
              IF EpExceeds(stats, acc.max_map, RowOf(anime))
              THEN DictPut(acc.max_map, RowOf(anime), stats.valid_count.int)
              ELSE acc.max_map]

\* phase 3 over region_results[k..]
RECURSIVE PlanRegion(_, _, _, _)
PlanRegion(region_results, k, ranks, acc) ==
    IF k > Len(region_results) THEN acc
    ELSE PlanRegion(region_results, k + 1, ranks,
                    PlanItem(region_results[k].anime, region_results[k].stats,
                             ranks, acc))

\* phase 4: the rows with a positive sum, in the dict's order
valid_global_list(sum_map) ==
    SelectSeq(sum_map.keys, LAMBDA row : sum_map.val[row] > 0)

GlobalRanksOf(rows, keys) ==
    [row \in {rows[i] : i \in 1..Len(rows)} |->
        SortedPlace(keys, CHOOSE i \in 1..Len(rows) : rows[i] = row)]

GlobalRanksOfRows(sum_map, rows) ==
    GlobalRanksOf(rows, [i \in 1..Len(rows) |-> sum_map.val[rows[i]]])

global_rank_map(sum_map) == GlobalRanksOfRows(sum_map, valid_global_list(sum_map))

\* row -> name over the first region, a later entry overwriting
row_to_name_map(first_region_list) ==
    [row \in {RowOf(first_region_list[i]) : i \in 1..Len(first_region_list)} |->
        first_region_list[Max({i \in 1..Len(first_region_list) :
                                  RowOf(first_region_list[i]) = row})].anime_name]

CompValue(granks, row_idx) ==
    IF row_idx \in DOMAIN granks THEN PyInt(granks[row_idx]) ELSE EmptyValue

\* the plan of one row of global_comp_rank_cell_map; none without a name
CompItem(batch, row_idx, cell_addr, names, granks) ==
    IF row_idx \notin DOMAIN names \/ ~Truthy(names[row_idx]) THEN batch
    ELSE Append(batch,
                RowPlan(names[row_idx], row_idx,
                        <<Update(cell_addr, CompValue(granks, row_idx))>>))

RECURSIVE CompPlan(_, _, _, _, _)
CompPlan(batch, comp_map, k, names, granks) ==
    IF k > Len(comp_map.keys) THEN batch
    ELSE CompPlan(CompItem(batch, comp_map.keys[k],
                           comp_map.val[comp_map.keys[k]], names, granks),
                  comp_map, k + 1, names, granks)

\* phase 4: updates_batch after the comprehensive ranking
Comprehensive(batch, quota, comp_map, sum_map, sheet) ==
    IF ~quota /\ Len(comp_map.keys) > 0
    THEN CompPlan(batch, comp_map, 1, row_to_name_map(sheet[1]),
                  global_rank_map(sum_map))
    ELSE batch

-----------------------------------------------------------------------------
(* Bounds and the inputs drawn within them *)

\* most items in one playlist
MaxItems == 3

MaxBatches == (MaxItems + BatchSize - 1) \div BatchSize

OkRes == [status |-> 200, reasons |-> {}]
QuotaRes == [status |-> 403, reasons |-> {"quotaExceeded"}]
ForbiddenRes == [status |-> 403, reasons |-> {"forbidden"}]
NotFoundRes == [status |-> 404, reasons |-> {"playlistNotFound"}]
ServerErrRes == [status |-> 500, reasons |-> {}]

Page(res, items, next) ==
    [status |-> res.status, reasons |-> res.reasons,
     items |-> items, next |-> next]

\* the id of the i-th video of a playlist
Vid(i) == <<"v", DigitGlyphs[i + 1]>>

\* what the provider holds for one video; Absent: it returns no item
Views(text) == [sched |-> "none", viewCount |-> PyStr(text)]
Hidden == [sched |-> "none", viewCount |-> PyNone]
Upcoming(text) == [sched |-> "future", viewCount |-> PyStr(text)]
Premiered(text) == [sched |-> "past", viewCount |-> PyStr(text)]
BadDate(text) == [sched |-> "bad", viewCount |-> PyStr(text)]
Absent == [absent |-> TRUE]

LinkList == [query |-> [list |-> << <<"PL1">> >>]]
LinkNoList == [query |-> [v |-> << <<"x">> >>]]

TitleEP1 == <<"E","P","1">>
TitleEP2 == <<"E","P","2">>
TitleEP3 == <<"e","p",".","3">>
TitleHalf == <<"di","1",".","5","hua">>
TitlePV == <<"P","V","1">>
TitleS2 == <<"S","2">>

OffsetTexts == {
    <<"[","1",",","2","]">>,
    <<"[","2",",","1","]">>,
    <<"[","1",",","2",",","3","]">>,
    <<"[","]">>,
    <<"2">>,
    <<"0">>,
    <<"t","r","u","e">>,
    <<"\"","S","2","\"">>,
    <<"S","2">>,
    <<"E","P">> }

\* a playlist of n items with the given titles, in one page
Items(titles) ==
    [i \in 1..Len(titles) |-> [id |-> PyStr(Vid(i)), title |-> titles[i]]]

\* the provider's videos, given what it holds for each position
Videos(held) ==
    [v \in {Vid(i) : i \in {j \in 1..Len(held) : held[j] # Absent}} |->
        held[CHOOSE i \in 1..Len(held) : Vid(i) = v]]

AllOk == [b \in 1..MaxBatches |-> OkRes]

Env(pages, status, held) ==
    [pages |-> pages, yt |-> [status |-> status, video |-> Videos(held)]]

SeqsUpTo(S, n) == UNION {[1..k -> S] : k \in 0..n}

Case(link, offset, pages, status, held) ==
    [anime |-> [link_url |-> link, offset |-> offset],
     env |-> Env(pages, status, held)]

OnePage(titles) == <<Page(OkRes, Items(titles), FALSE)>>

\* aggregation: every mix of kept and ignored titles and of samples
AggTitles == {TitleEP1, TitlePV}
AggHeld == {Views(<<"1">>), Views(<<"4">>), Hidden, Upcoming(<<"4">>), Absent}
AggCases ==
    {Case(LinkList, o, OnePage([i \in DOMAIN k |-> k[i][1]]), AllOk,
          [i \in DOMAIN k |-> k[i][2]]) :
        o \in {PyNone},
        k \in SeqsUpTo(AggTitles \X AggHeld, MaxItems)}

\* the other shapes of one item: dates, an empty or zero count, no videoId,
\* and links that resolve to no playlist
SampleCases ==
    {Case(LinkList, PyNone, OnePage(<<TitleEP1>>), AllOk, <<h>>) :
        h \in {Premiered(<<"7">>), BadDate(<<"7">>), Views(<<>>),
               Views(<<"0">>), Views(<<"1","2">>)}}
    \cup {Case(LinkList, PyNone,
               <<Page(OkRes, <<[id |-> PyNone, title |-> TitleEP1],
                               [id |-> PyStr(Vid(2)), title |-> TitleEP2]>>,
                      FALSE)>>,
               AllOk, <<Views(<<"1">>), Views(<<"4">>)>>)}
    \cup {Case(l, PyNone, OnePage(<<TitleEP1>>), AllOk, <<Views(<<"1">>)>>) :
            l \in {PyNone, LinkNoList}}

\* offsets: every offset text against every title
OffsetTitles == {TitleEP1, TitleEP2, TitleEP3, TitleHalf, TitleS2}
OffsetCases ==
    {Case(LinkList, PyStr(o), OnePage(t), AllOk,
          [i \in DOMAIN t |-> Views(<<"1">>)]) :
        o \in OffsetTexts \cup {<<>>},
        t \in SeqsUpTo(OffsetTitles, Min(MaxItems, 2)) \ {<<>>}}

\* provider failures: each page and each batch answered by any response
PageResponses == {OkRes, QuotaRes, ForbiddenRes, NotFoundRes, ServerErrRes}
BatchResponses == {OkRes, QuotaRes, ServerErrRes}
PagesOf(items, rs) ==
    IF Len(rs) = 1 THEN <<Page(rs[1], items, FALSE)>>
    ELSE <<Page(rs[1], SubSeq(items, 1, 1), TRUE),
           Page(rs[2], SubSeq(items, 2, Len(items)), FALSE)>>
FailureCases ==
    {Case(LinkList, PyNone,
          PagesOf(Items([i \in 1..n |-> TitleEP1]), rs), st,
          [i \in 1..n |-> Views(<<"1">>)]) :
        n \in 1..MaxItems,
        rs \in [1..1 -> PageResponses] \cup [1..2 -> PageResponses],
        st \in [1..MaxBatches -> BatchResponses]}

ProcessorCases == AggCases \cup SampleCases \cup OffsetCases \cup FailureCases

-----------------------------------------------------------------------------
(* The run: its inputs *)

\* SPREADSHEET_IDS holds this many ids, each set or ""
NumSpreadsheets == 3

\* most sheet names one schedule entry lists
MaxSheets == 2
\* most regions in one sheet, and most series in one sheet over its regions
MaxRegions == 2
MaxSeries == 3

SpreadsheetNames == <<"muse", "medialink", "tropic">>
SpreadsheetConfigs ==
    {[i \in 1..NumSpreadsheets |-> IF i \in S THEN SpreadsheetNames[i] ELSE ""] :
        S \in SUBSET (1..NumSpreadsheets)}

\* get_schedule's answer: the sheets of key "0" and of today's key
SheetNames == 1..MaxSheets
Schedules == [zero : SUBSET SheetNames, today : SUBSET SheetNames]

\* sorted(list(sheets_to_process))
Sorted(S) ==
    CHOOSE q \in [1..Cardinality(S) -> S] :
        \A i, j \in 1..Cardinality(S) : i < j => q[i] < q[j]

TargetSheets(schedule) == Sorted(schedule.zero \cup schedule.today)

\* what the video provider answers for one series of a sheet
EnvAvg4 == Env(OnePage(<<TitleEP1>>), AllOk, <<Views(<<"4">>)>>)
EnvAvg4Two ==
    Env(OnePage(<<TitleEP1, TitleEP2>>), AllOk,
        <<Views(<<"4">>), Views(<<"4">>)>>)
EnvAvg1Three ==
    Env(OnePage(<<TitleEP1, TitleEP2, TitleEP3>>), AllOk,
        <<Views(<<"1">>), Hidden, Views(<<"1">>)>>)
EnvAvg0 == Env(OnePage(<<TitleEP1>>), AllOk, <<Views(<<"0">>)>>)
EnvHidden == Env(OnePage(<<TitleEP1>>), AllOk, <<Hidden>>)
EnvRemoved == Env(<<Page(NotFoundRes, <<>>, FALSE)>>, AllOk, <<>>)
EnvQuota == Env(<<Page(QuotaRes, <<>>, FALSE)>>, AllOk, <<>>)
EnvQuotaStats ==
    Env(OnePage(<<TitleEP1>>), [b \in 1..MaxBatches |-> QuotaRes],
        <<Views(<<"4">>)>>)
RunEnvs ==
    {EnvAvg4, EnvAvg4Two, EnvAvg1Three, EnvAvg0, EnvHidden, EnvRemoved,
     EnvQuota, EnvQuotaStats}

\* cell references: a column of the sheet (of one region, or 0: of all) and
\* a row
Cell(col, region, row) == [col |-> col, region |-> region, row |-> row]

\* which cells a row has, and whether it has a link
Full == [rank |-> TRUE, views |-> TRUE, ep |-> TRUE, comp |-> TRUE, link |-> TRUE]
NoLink == [rank |-> TRUE, views |-> TRUE, ep |-> TRUE, comp |-> TRUE, link |-> FALSE]
Bare == [rank |-> FALSE, views |-> TRUE, ep |-> FALSE, comp |-> FALSE, link |-> TRUE]
BareNoLink ==
    [rank |-> FALSE, views |-> TRUE, ep |-> FALSE, comp |-> FALSE, link |-> FALSE]
Layouts == {Full, NoLink, Bare, BareNoLink}

OptCell(has, col, region, row) == IF has THEN Cell(col, region, row) ELSE PyNone

\* one entry of a region's anime_list, as get_sheet_data returns it
Anime(g, row, layout) ==
    [name_cell |-> Cell("name", 0, row),
     anime_name |-> PyStr(<<"n", DigitGlyphs[row + 1]>>),
     rank_cell |-> OptCell(layout.rank, "rank", g, row),
     avg_view_cell |-> OptCell(layout.views, "avg", g, row),
     total_view_cell |-> OptCell(layout.views, "total", g, row),
     first_view_cell |-> OptCell(layout.views, "first", g, row),
     ep_count_cell |-> OptCell(layout.ep, "ep", 0, row),
     comp_rank_cell |-> OptCell(layout.comp, "comp", 0, row),
     link_url |-> IF layout.link THEN LinkList ELSE PyNone,
     offset |-> PyNone]

\* the rows of a sheet; the first keeps every cell, the layout of the others
\* varies
Rows == {2, 3}
LayoutOf(row, layout) == IF row = 2 THEN Full ELSE layout

\* the rows of one region, each row at most once
RegionRows ==
    {q \in SeqsUpTo(Rows, Cardinality(Rows)) :
        Len(q) > 0 /\ \A i, j \in DOMAIN q : i # j => q[i] # q[j]}

RECURSIVE SeriesIn(_, _)
SeriesIn(shape, k) ==
    IF k > Len(shape) THEN 0 ELSE Len(shape[k]) + SeriesIn(shape, k + 1)

SheetShapes ==
    {shape \in SeqsUpTo(RegionRows, MaxRegions) :
        Len(shape) > 0 /\ SeriesIn(shape, 1) <= MaxSeries}

\* sheet_data: the regions in order, each its anime_list
Sheet(shape, layout) ==
    [g \in DOMAIN shape |->
        [k \in DOMAIN shape[g] |->
            Anime(g, shape[g][k], LayoutOf(shape[g][k], layout))]]

Sheets == {Sheet(shape, layout) : shape \in SheetShapes, layout \in Layouts}

\* the sheets of a whole run: no data, one region, two regions
RunSheets ==
    {<<>>, Sheet(<< <<2>> >>, Full), Sheet(<< <<2>>, <<3>> >>, Full)}

-----------------------------------------------------------------------------
(* State *)

VARIABLES
    quota_exceeded,   \* yt_processor.quota_exceeded
    input,            \* the series and the provider the processor is called on
    last,             \* the last call made on the processor and its outcome
    SPREADSHEET_IDS,  \* the configured ids
    store,            \* the sheet_data the backing store holds for a sheet
    pc,               \* where main is
    idx,              \* main: position in SPREADSHEET_IDS
    target_sheets,    \* main: the sheets to process of this spreadsheet
    sheet_i,          \* main: position in target_sheets
    time_i,           \* main: position in SPREADSHEET_IDS of the closing loop
    global_error_occurred,
    sheet_data,       \* process_single_sheet: its locals
    region_i,
    anime_i,
    region_results,
    rank_map,
    updates_batch,
    row_max_ep_map,
    global_avg_sum_map,
    global_comp_rank_cell_map,
    after_quota,      \* backing-store calls made with the flag set
    store_errors,     \* backing-store calls that raised
    telegram,         \* calls of send_telegram_error
    timestamps,       \* calls of update_system_time that returned
    heartbeat         \* the heartbeat was requested

procVars == <<quota_exceeded, input, last>>
mainVars ==
    <<SPREADSHEET_IDS, store, pc, idx, target_sheets, sheet_i, time_i,
      global_error_occurred>>
sheetVars ==
    <<sheet_data, region_i, anime_i, region_results, rank_map, updates_batch,
      row_max_ep_map, global_avg_sum_map, global_comp_rank_cell_map>>
histVars == <<after_quota, store_errors, telegram, timestamps, heartbeat>>
vars == <<procVars, mainVars, sheetVars, histVars>>

NoCall == [op |-> "none"]

\* no sheet is being processed: process_single_sheet has no locals
SheetIdle ==
    /\ sheet_data = <<>>
    /\ region_i = 0
    /\ anime_i = 0
    /\ region_results = <<>>
    /\ rank_map = <<>>
    /\ updates_batch = <<>>
    /\ row_max_ep_map = DictEmpty
    /\ global_avg_sum_map = DictEmpty
    /\ global_comp_rank_cell_map = DictEmpty

HistIdle ==
    /\ after_quota = {}
    /\ store_errors = {}
    /\ telegram = 0
    /\ timestamps = 0
    /\ heartbeat = FALSE

\* main before its first step
MainIdle ==
    /\ pc = "spreadsheet"
    /\ idx = 1
    /\ target_sheets = <<>>
    /\ sheet_i = 0
    /\ time_i = 1
    /\ global_error_occurred = FALSE

-----------------------------------------------------------------------------
(* The processor under any client: its methods called in any order, on a    *)
(* series and a provider drawn at the start                                  *)

InitProcessor ==
    /\ quota_exceeded = FALSE
    /\ input \in ProcessorCases
    /\ last = NoCall
    /\ SPREADSHEET_IDS = [i \in 1..NumSpreadsheets |-> ""]
    /\ store = <<>>
    /\ MainIdle
    /\ SheetIdle
    /\ HistIdle

CallProcessAnime ==
    LET out == process_anime(quota_exceeded, input.anime, input.env)
    IN  /\ quota_exceeded' = out.quota
        /\ last' = [op |-> "process_anime", before |-> quota_exceeded,
                    out |-> out]
        /\ UNCHANGED <<input, mainVars, sheetVars, histVars>>

CallGetPlaylistItems ==
    LET out == get_playlist_items(quota_exceeded, input.env.pages)
    IN  /\ quota_exceeded' = out.quota
        /\ last' = [op |-> "get_playlist_items", before |-> quota_exceeded,
                    out |-> out]
        /\ UNCHANGED <<input, mainVars, sheetVars, histVars>>

CallGetVideoStats ==
    LET video_ids == [i \in 1..MaxItems |-> Vid(i)]
        out == get_video_stats(quota_exceeded, video_ids, input.env.yt)
    IN  /\ quota_exceeded' = out.quota
        /\ last' = [op |-> "get_video_stats", before |-> quota_exceeded,
                    out |-> out]
        /\ UNCHANGED <<input, mainVars, sheetVars, histVars>>

NextProcessor ==
    \/ CallProcessAnime
    \/ CallGetPlaylistItems
    \/ CallGetVideoStats

SpecProcessor == InitProcessor /\ [][NextProcessor]_vars

-----------------------------------------------------------------------------
(* is_ignored_keyword on a processor whose table of exceptions holds one    *)
(* more entry: a title, a keyword and a part of the title drawn at the start *)

\* the table with exc registered for kw
Register(exceptions, kw, exc) ==
    [k \in DOMAIN exceptions \cup {kw} |->
        IF k # kw THEN exceptions[k]
        ELSE IF kw \in DOMAIN exceptions THEN Append(exceptions[kw], exc)
        ELSE <<exc>>]

\* the contiguous runs of a title
Runs(title) ==
    {SubSeq(title, i, j) : i \in 1..Len(title), j \in 1..Len(title)} \ {<<>>}

IgnoreTitles ==
    {TitleEP1, TitlePV,
     <<"C","M","1">>,
     <<"P","V"," ","C","M">>,
     <<"N","C","O","P">>,
     <<"t","e","s","t","C","M","dong","hua4","ming","cheng">>,
     <<"E","D","C","M">>}

IgnoreCases ==
    {[title |-> t, kw |-> ignore_keywords[n], exc |-> x,
      exceptions |-> Register(ignore_keywords_exceptions, ignore_keywords[n], x)] :
        t \in IgnoreTitles, n \in 1..Len(ignore_keywords),
        x \in UNION {Runs(u) : u \in IgnoreTitles}}

InitIgnore ==
    /\ quota_exceeded = FALSE
    /\ input \in IgnoreCases
    /\ last = NoCall
    /\ SPREADSHEET_IDS = [i \in 1..NumSpreadsheets |-> ""]
    /\ store = <<>>
    /\ MainIdle
    /\ SheetIdle
    /\ HistIdle

CallIsIgnoredKeyword ==
    /\ last' = [op |-> "is_ignored_keyword",
                out |-> [ret |-> IsIgnored(input.title, ignore_keywords,
                                           input.exceptions)]]
    /\ UNCHANGED <<quota_exceeded, input, mainVars, sheetVars, histVars>>

NextIgnore == CallIsIgnoredKeyword

SpecIgnore == InitIgnore /\ [][NextIgnore]_vars

-----------------------------------------------------------------------------
(* process_single_sheet, one step for each stretch between two remote calls *)

\* a backing-store call is made
Noted(calls, name) == IF quota_exceeded THEN calls \cup {name} ELSE calls

\* the function returns: its locals are gone, main goes on to the next sheet
SheetReturns ==
    /\ pc' = "sheets"
    /\ sheet_i' = sheet_i + 1
    /\ sheet_data' = <<>>
    /\ region_i' = 0
    /\ anime_i' = 0
    /\ region_results' = <<>>
    /\ rank_map' = <<>>
    /\ updates_batch' = <<>>
    /\ row_max_ep_map' = DictEmpty
    /\ global_avg_sum_map' = DictEmpty
    /\ global_comp_rank_cell_map' = DictEmpty
    /\ UNCHANGED <<SPREADSHEET_IDS, store, idx, target_sheets, time_i,
                   global_error_occurred>>

InSheets == pc = "sheets" /\ sheet_i <= Len(target_sheets)

\* main finds the flag clear and calls process_single_sheet, which reads
\* the sheet: without data it returns, with data it sets up its locals
GetSheetData ==
    /\ InSheets /\ ~quota_exceeded
    /\ after_quota' = Noted(after_quota, "get_sheet_data")
    /\ IF Len(store) = 0
       THEN SheetReturns
       ELSE /\ sheet_data' = store
            /\ pc' = "phase1"
            /\ region_i' = 1
            /\ anime_i' = 1
            /\ UNCHANGED <<SPREADSHEET_IDS, store, idx, target_sheets, sheet_i,
                           time_i, global_error_occurred, region_results,
                           rank_map, updates_batch, row_max_ep_map,
                           global_avg_sum_map, global_comp_rank_cell_map>>
    /\ UNCHANGED <<procVars, store_errors, telegram, timestamps, heartbeat>>

\* get_sheet_data raises: process_single_sheet prints and returns
GetSheetDataFails ==
    /\ InSheets /\ ~quota_exceeded
    /\ after_quota' = Noted(after_quota, "get_sheet_data")
    /\ store_errors' = store_errors \cup {"get_sheet_data"}
    /\ SheetReturns
    /\ UNCHANGED <<procVars, telegram, timestamps, heartbeat>>

InPhase1 == pc = "phase1" /\ anime_i <= Len(sheet_data[region_i])

\* phase 1, one series: its cells are noted, its stats fetched and added up
Phase1Step(anime, out) ==
    /\ quota_exceeded' = out.quota
    /\ global_comp_rank_cell_map' = RecordComp(global_comp_rank_cell_map, anime)
    /\ region_results' =
           Append(region_results, [anime |-> anime, stats |-> out.ret])
    /\ global_avg_sum_map' =
           Accumulate(global_avg_sum_map, RowOf(anime), out.ret)
    /\ anime_i' = anime_i + 1

ProcessAnime ==
    /\ InPhase1 /\ ~quota_exceeded
    /\ \E env \in RunEnvs :
          Phase1Step(sheet_data[region_i][anime_i],
                     process_anime(quota_exceeded,
                                   sheet_data[region_i][anime_i], env))
    /\ UNCHANGED <<input, last, mainVars, sheet_data, region_i, rank_map,
                   updates_batch, row_max_ep_map, histVars>>

\* phase 1 finds the flag set: the function returns at once
QuotaReturn ==
    /\ InPhase1 /\ quota_exceeded
    /\ SheetReturns
    /\ UNCHANGED <<procVars, histVars>>

PlanApplied(acc) ==
    /\ updates_batch' = acc.batch
    /\ row_max_ep_map' = acc.max_map

RankedAndPlanned(ranks) ==
    /\ rank_map' = ranks
    /\ PlanApplied(PlanRegion(region_results, 1, ranks,
                              [batch |-> updates_batch,
                               max_map |-> row_max_ep_map]))

\* phases 2 and 3 of the region whose series are all fetched
RankRegion ==
    /\ pc = "phase1" /\ anime_i > Len(sheet_data[region_i])
    /\ RankedAndPlanned(RankMap(region_results))
    /\ pc' = "planned"
    /\ UNCHANGED <<procVars, SPREADSHEET_IDS, store, idx, target_sheets,
                   sheet_i, time_i, global_error_occurred, sheet_data,
                   region_i, anime_i, region_results, global_avg_sum_map,
                   global_comp_rank_cell_map, histVars>>

\* the loop over the regions goes on
NextRegion ==
    /\ pc = "planned" /\ region_i < Len(sheet_data)
    /\ pc' = "phase1"
    /\ region_i' = region_i + 1
    /\ anime_i' = 1
    /\ region_results' = <<>>
    /\ UNCHANGED <<procVars, SPREADSHEET_IDS, store, idx, target_sheets,
                   sheet_i, time_i, global_error_occurred, sheet_data,
                   rank_map, updates_batch, row_max_ep_map,
                   global_avg_sum_map, global_comp_rank_cell_map, histVars>>

\* phase 4, after the last region
ComprehensiveRank ==
    /\ pc = "planned" /\ region_i = Len(sheet_data)
    /\ updates_batch' =
           Comprehensive(updates_batch, quota_exceeded,
                         global_comp_rank_cell_map, global_avg_sum_map,
                         sheet_data)
    /\ pc' = "write"
    /\ UNCHANGED <<procVars, SPREADSHEET_IDS, store, idx, target_sheets,
                   sheet_i, time_i, global_error_occurred, sheet_data,
                   region_i, anime_i, region_results, rank_map,
                   row_max_ep_map, global_avg_sum_map,
                   global_comp_rank_cell_map, histVars>>

Writes == Len(updates_batch) > 0 /\ ~quota_exceeded

\* batch_update returns
BatchUpdate ==
    /\ pc = "write" /\ Writes
    /\ after_quota' = Noted(after_quota, "batch_update")
    /\ pc' = "sort"
    /\ UNCHANGED <<procVars, SPREADSHEET_IDS, store, idx, target_sheets,
                   sheet_i, time_i, global_error_occurred, sheetVars,
                   store_errors, telegram, timestamps, heartbeat>>

\* batch_update raises: printed, the sheet is not sorted
BatchUpdateFails ==
    /\ pc = "write" /\ Writes
    /\ after_quota' = Noted(after_quota, "batch_update")
    /\ store_errors' = store_errors \cup {"batch_update"}
    /\ SheetReturns
    /\ UNCHANGED <<procVars, telegram, timestamps, heartbeat>>

\* nothing to write, or the flag is set: printed only
NoWrite ==
    /\ pc = "write" /\ ~Writes
    /\ SheetReturns
    /\ UNCHANGED <<procVars, histVars>>

\* sort_data returns
SortData ==
    /\ pc = "sort"
    /\ after_quota' = Noted(after_quota, "sort_data")
    /\ SheetReturns
    /\ UNCHANGED <<procVars, store_errors, telegram, timestamps, heartbeat>>

\* sort_data raises: printed
SortDataFails ==
    /\ pc = "sort"
    /\ after_quota' = Noted(after_quota, "sort_data")
    /\ store_errors' = store_errors \cup {"sort_data"}
    /\ SheetReturns
    /\ UNCHANGED <<procVars, telegram, timestamps, heartbeat>>

NextSheet ==
    \/ GetSheetData
    \/ GetSheetDataFails
    \/ ProcessAnime
    \/ QuotaReturn
    \/ RankRegion
    \/ NextRegion
    \/ ComprehensiveRank
    \/ BatchUpdate
    \/ BatchUpdateFails
    \/ NoWrite
    \/ SortData
    \/ SortDataFails

\* one sheet of one spreadsheet is about to be processed
InitSheet ==
    /\ quota_exceeded = FALSE
    /\ input = [anime |-> PyNone, env |-> PyNone]
    /\ last = NoCall
    /\ SPREADSHEET_IDS = [i \in 1..NumSpreadsheets |->
                             IF i = 1 THEN SpreadsheetNames[i] ELSE ""]
    /\ store \in Sheets
    /\ pc = "sheets"
    /\ idx = 1
    /\ target_sheets = <<1>>
    /\ sheet_i = 1
    /\ time_i = 1
    /\ global_error_occurred = FALSE
    /\ SheetIdle
    /\ HistIdle

SpecSheet == InitSheet /\ [][NextSheet]_vars

-----------------------------------------------------------------------------
(* main *)

InSpreadsheets == pc = "spreadsheet" /\ idx <= Len(SPREADSHEET_IDS)

\* the except clause of main: the run is marked failed, the error is sent
Handled ==
    /\ global_error_occurred' = TRUE
    /\ telegram' = telegram + 1
    /\ pc' = "closing"

\* an id that is "" is passed over
SkipSpreadsheet ==
    /\ InSpreadsheets /\ SPREADSHEET_IDS[idx] = ""
    /\ idx' = idx + 1
    /\ UNCHANGED <<procVars, SPREADSHEET_IDS, store, pc, target_sheets,
                   sheet_i, time_i, global_error_occurred, sheetVars, histVars>>

Scheduled(sheets) ==
    /\ target_sheets' = sheets
    /\ IF Len(sheets) = 0
       THEN idx' = idx + 1 /\ UNCHANGED <<pc, sheet_i>>
       ELSE pc' = "sheets" /\ sheet_i' = 1 /\ UNCHANGED idx

\* get_schedule returns: the sheets to process are sorted out of it
GetSchedule ==
    /\ InSpreadsheets /\ SPREADSHEET_IDS[idx] # ""
    /\ after_quota' = Noted(after_quota, "get_schedule")
    /\ \E schedule \in Schedules : Scheduled(TargetSheets(schedule))
    /\ UNCHANGED <<procVars, SPREADSHEET_IDS, store, time_i,
                   global_error_occurred, sheetVars, store_errors, telegram,
                   timestamps, heartbeat>>

\* get_schedule raises: re-raised to the except clause
GetScheduleFails ==
    /\ InSpreadsheets /\ SPREADSHEET_IDS[idx] # ""
    /\ after_quota' = Noted(after_quota, "get_schedule")
    /\ store_errors' = store_errors \cup {"get_schedule"}
    /\ Handled
    /\ UNCHANGED <<procVars, SPREADSHEET_IDS, store, idx, target_sheets,
                   sheet_i, time_i, sheetVars, timestamps, heartbeat>>

\* every sheet of the spreadsheet is done
EndSheets ==
    /\ pc = "sheets" /\ sheet_i > Len(target_sheets)
    /\ pc' = "spreadsheet"
    /\ idx' = idx + 1
    /\ UNCHANGED <<procVars, SPREADSHEET_IDS, store, target_sheets, sheet_i,
                   time_i, global_error_occurred, sheetVars, histVars>>

\* main finds the flag set before a sheet: it raises
QuotaAbort ==
    /\ InSheets /\ quota_exceeded
    /\ Handled
    /\ UNCHANGED <<procVars, SPREADSHEET_IDS, store, idx, target_sheets,
                   sheet_i, time_i, sheetVars, after_quota, store_errors,
                   timestamps, heartbeat>>

\* every spreadsheet is done
EndSpreadsheets ==
    /\ pc = "spreadsheet" /\ idx > Len(SPREADSHEET_IDS)
    /\ pc' = "closing"
    /\ UNCHANGED <<procVars, SPREADSHEET_IDS, store, idx, target_sheets,
                   sheet_i, time_i, global_error_occurred, sheetVars, histVars>>

\* a failed run ends without its closing steps
EndFailed ==
    /\ pc = "closing" /\ global_error_occurred
    /\ pc' = "done"
    /\ UNCHANGED <<procVars, SPREADSHEET_IDS, store, idx, target_sheets,
                   sheet_i, time_i, global_error_occurred, sheetVars, histVars>>

InTimes ==
    pc = "closing" /\ ~global_error_occurred /\ time_i <= Len(SPREADSHEET_IDS)

SkipSystemTime ==
    /\ InTimes /\ SPREADSHEET_IDS[time_i] = ""
    /\ time_i' = time_i + 1
    /\ UNCHANGED <<procVars, SPREADSHEET_IDS, store, pc, idx, target_sheets,
                   sheet_i, global_error_occurred, sheetVars, histVars>>

\* update_system_time returns
UpdateSystemTime ==
    /\ InTimes /\ SPREADSHEET_IDS[time_i] # ""
    /\ timestamps' = timestamps + 1
    /\ time_i' = time_i + 1
    /\ UNCHANGED <<procVars, SPREADSHEET_IDS, store, pc, idx, target_sheets,
                   sheet_i, global_error_occurred, sheetVars, after_quota,
                   store_errors, telegram, heartbeat>>

\* update_system_time raises: the error is sent and main returns
UpdateSystemTimeFails ==
    /\ InTimes /\ SPREADSHEET_IDS[time_i] # ""
    /\ telegram' = telegram + 1
    /\ pc' = "done"
    /\ UNCHANGED <<procVars, SPREADSHEET_IDS, store, idx, target_sheets,
                   sheet_i, time_i, global_error_occurred, sheetVars,
                   after_quota, store_errors, timestamps, heartbeat>>

\* the heartbeat is requested; its failure is printed only
Heartbeat ==
    /\ pc = "closing" /\ ~global_error_occurred
    /\ time_i > Len(SPREADSHEET_IDS)
    /\ heartbeat' = TRUE
    /\ pc' = "done"
    /\ UNCHANGED <<procVars, SPREADSHEET_IDS, store, idx, target_sheets,
                   sheet_i, time_i, global_error_occurred, sheetVars,
                   after_quota, store_errors, telegram, timestamps>>

Init ==
    /\ quota_exceeded = FALSE
    /\ input = [anime |-> PyNone, env |-> PyNone]
    /\ last = NoCall
    /\ SPREADSHEET_IDS \in SpreadsheetConfigs
    /\ store \in RunSheets
    /\ MainIdle
    /\ SheetIdle
    /\ HistIdle

Next ==
    \/ SkipSpreadsheet
    \/ GetSchedule
    \/ GetScheduleFails
    \/ EndSheets
    \/ QuotaAbort
    \/ EndSpreadsheets
    \/ GetSheetData
    \/ GetSheetDataFails
    \/ ProcessAnime
    \/ QuotaReturn
    \/ RankRegion
    \/ NextRegion
    \/ ComprehensiveRank
    \/ BatchUpdate
    \/ BatchUpdateFails
    \/ NoWrite
    \/ SortData
    \/ SortDataFails
    \/ EndFailed
    \/ SkipSystemTime
    \/ UpdateSystemTime
    \/ UpdateSystemTimeFails
    \/ Heartbeat

Spec == Init /\ [][Next]_vars

-----------------------------------------------------------------------------
(* Claims about the processor, checked under SpecProcessor *)

IsProcessAnime == last.op = "process_anime"

\* the call returned a result that is neither null nor the removed marker
HasStats == IsProcessAnime /\ ~IsNone(last.out.ret) /\ last.out.ret # RemovedResult

\* C1: once the exhausted flag is set it is never reset, a call that starts
\* with the flag set issues no request (and process_anime returns null), and
\* no request is ever issued after the flag was set within a call (the
\* remaining batches and pages are not requested).
C1_ExhaustedIsSticky ==
    [][/\ quota_exceeded => quota_exceeded'
       /\ (quota_exceeded /\ last'.op # "none") =>
              /\ last'.out.requests = 0
              /\ last'.op = "process_anime" => last'.out.ret = PyNone
       /\ last'.op # "none" => last'.out.after = 0]_vars

\* C1 witness: process_anime called on a series with a playlist link after
\* the flag was set; it returned null without a request
C1_Witness ==
    /\ IsProcessAnime
    /\ last.before
    /\ input.anime.link_url = LinkList
    /\ last.out.ret = PyNone
    /\ last.out.requests = 0

RECURSIVE SeqSum(_)
SeqSum(xs) == IF xs = <<>> THEN 0 ELSE Head(xs) + SeqSum(Tail(xs))

\* the samples fetched for the surviving items, in their order
FetchedSamples(valid, yt) ==
    [i \in 1..Len(valid) |->
        StatsGet(get_video_stats(FALSE, IdsOf(valid), yt).ret, valid[i].id.str)]

\* the integers among the samples
RealViews(samples) ==
    [i \in 1..Len(SelectSeq(samples, IsInt)) |->
        SelectSeq(samples, IsInt)[i].int]

TotalAndAverageOf(ret, reals) ==
    IF Len(reals) > 0
    THEN /\ ret.total = PyInt(SeqSum(reals))
         /\ ret.avg = PyInt(CHOOSE a \in 0..SeqSum(reals) :
                                /\ a * Len(reals) <= SeqSum(reals)
                                /\ SeqSum(reals) < (a + 1) * Len(reals))
    ELSE ret.total = NoData /\ ret.avg = NoData

\* C4: for every result that is neither null nor removed, total is the sum
\* of the real-integer samples of the surviving items and average is
\* floor(total / number of real-integer samples); with no real-integer
\* sample both are the "no-data" sentinel.
C4_TotalAndAverage ==
    HasStats =>
        TotalAndAverageOf(last.out.ret,
                          RealViews(FetchedSamples(last.out.valid, input.env.yt)))

\* C4 witness: three surviving items, one hidden, views 1 and 4: total 5,
\* average floor(5 / 2) = 2
C4_Witness ==
    /\ HasStats
    /\ Len(last.out.valid) = 3
    /\ last.out.ret.total = PyInt(5)
    /\ last.out.ret.avg = PyInt(2)

\* C5 as claimed: for every result that is neither null nor removed,
\* valid_episode_count is the number of items that survived filtering,
\* whether or not they have view data.
C5_ValidCountIsSurvivors ==
    HasStats => last.out.ret.valid_count = PyInt(Len(last.out.valid))

\* the offset text is a range: it parses as an array of two numbers
IsRangeValue(j) ==
    /\ j.ok
    /\ "list" \in DOMAIN j.val
    /\ Len(j.val.list) = 2
    /\ IsNumber(j.val.list[1])
    /\ IsNumber(j.val.list[2])

\* the offset check as claimed, for a non-empty offset text
ClaimedOffsetCheck(title, text, j, ep_idx) ==
    IF IsRangeValue(j)
    THEN /\ ~IsNone(ep_idx)
         /\ Tenths(j.val.list[1]) <= Tenths(ep_idx)
         /\ Tenths(ep_idx) <= Tenths(j.val.list[2])
    ELSE Contains(title, text)

ClaimedSurvivors(items, offset) ==
    SelectSeq(items, LAMBDA it :
        /\ ~is_ignored_keyword(it.title)
        /\ Truthy(offset) =>
               ClaimedOffsetCheck(it.title, offset.str, json_loads(offset.str),
                                  parse_episode_number(it.title)))

\* C10 as claimed: an offset text is a numeric range only when it parses
\* as a two-element numeric array; every other non-empty offset text is a
\* literal substring the title must contain to survive.
C10_OffsetEncoding ==
    (/\ IsProcessAnime
     /\ ~last.before
     /\ Truthy(input.anime.offset)
     /\ input.anime.link_url = LinkList
     /\ Len(input.env.pages) = 1
     /\ input.env.pages[1].status = 200)
    => last.out.valid = ClaimedSurvivors(input.env.pages[1].items,
                                         input.anime.offset)

\* the call fetched the playlist of the series: the items it filters
FetchedItems == get_playlist_items(FALSE, input.env.pages).ret

FiltersItems ==
    /\ IsProcessAnime
    /\ ~last.before
    /\ Truthy(get_playlist_id(input.anime.link_url))
    /\ "list" \in DOMAIN FetchedItems

\* the offset check of a title against the configured offset
OffsetCheck(title, off) == is_in_offset(title, off.range, off.string)

SurvivesAsClaimed(title, offset) ==
    /\ ~is_ignored_keyword(title)
    /\ ~Truthy(offset) \/ OffsetCheck(title, ParseOffset(offset))

OutsideRange(ep_idx, range) ==
    \/ IsNone(ep_idx)
    \/ Tenths(ep_idx) < Tenths(range.list[1])
    \/ Tenths(ep_idx) > Tenths(range.list[2])

\* with a numeric range configured, no surviving title is outside of it
RangeExcludes(valid, j) ==
    IsRangeValue(j) =>
        \A i \in DOMAIN valid :
            ~OutsideRange(parse_episode_number(valid[i].title), j.val)

\* C11 as claimed: an item survives filtering if and only if its title is
\* not ignored and either no offset is configured or the title satisfies
\* the offset check; with a numeric range [start, end] configured, a title
\* whose episode index is outside the range or cannot be parsed is excluded.
C11_SurvivesIffKeptAndInOffset ==
    FiltersItems =>
        /\ last.out.valid =
               SelectSeq(FetchedItems.list,
                         LAMBDA it : SurvivesAsClaimed(it.title,
                                                       input.anime.offset))
        /\ Truthy(input.anime.offset) =>
               RangeExcludes(last.out.valid, json_loads(input.anime.offset.str))

-----------------------------------------------------------------------------
(* Claims about the ignore check, checked under SpecIgnore *)

\* the title is ignored by the program's tables, and the exception
\* registered is a part of it, for a keyword it contains
ExceptionRegistered ==
    /\ last.op = "is_ignored_keyword"
    /\ is_ignored_keyword(input.title)
    /\ Contains(input.title, input.kw)
    /\ Contains(input.title, input.exc)

\* C12 as claimed: for a title the check reports as ignored, registering an
\* exception present in the title, for an ignore keyword the title
\* contains, changes the result from excluded to included.
C12_ExceptionReverses == ExceptionRegistered => ~last.out.ret

\* the title contains a keyword other than kw that no exception of the
\* program's table suppresses
HeldByOther(title, kw) ==
    \E n \in 1..Len(ignore_keywords) :
        /\ ignore_keywords[n] # kw
        /\ Contains(title, ignore_keywords[n])
        /\ ~(/\ ignore_keywords[n] \in DOMAIN ignore_keywords_exceptions
             /\ \E x \in 1..Len(ignore_keywords_exceptions[ignore_keywords[n]]) :
                    Contains(title,
                             ignore_keywords_exceptions[ignore_keywords[n]][x]))

\* C12 amended: the exception suppresses its own keyword only; the result
\* changes to included exactly when the title contains no other ignore
\* keyword left without an exception present in the title, and stays
\* excluded otherwise.
C12_ExceptionReversesOwnKeyword ==
    ExceptionRegistered => (last.out.ret <=> HeldByOther(input.title, input.kw))

\* C12 witness: CM1 is ignored for CM alone; with CM1 registered as an
\* exception of CM it is included
C12_Witness ==
    /\ ExceptionRegistered
    /\ input.title = <<"C","M","1">>
    /\ input.kw = <<"C","M">>
    /\ ~last.out.ret

-----------------------------------------------------------------------------
(* Claims about the run, checked under Spec *)

\* C2 as claimed: once the exhausted flag is set, no backing-store read
\* (get_schedule, get_sheet_data) and no backing-store write (batch_update,
\* sort_data) is performed before the run reaches its closing steps.
C2_NoStoreCallOnceExhausted == after_quota = {}

\* C3 as claimed: a run in which a backing-store call (get_schedule,
\* get_sheet_data, batch_update, sort_data) raised ends marked as failed,
\* with one error message sent and neither a timestamp update nor the
\* heartbeat performed.
C3_StoreErrorFailsRun ==
    (pc = "done" /\ store_errors # {}) =>
        /\ global_error_occurred
        /\ telegram = 1
        /\ timestamps = 0
        /\ ~heartbeat

\* C14 as claimed: a run in which the exhausted flag became set, whichever
\* sheet it was set in (the last scheduled sheet of the last spreadsheet
\* included), ends marked as failed: an error message has been sent and
\* neither a timestamp update nor the heartbeat has been performed.
C14_ExhaustedFailsRun ==
    (pc = "done" /\ quota_exceeded) =>
        /\ global_error_occurred
        /\ telegram >= 1
        /\ timestamps = 0
        /\ ~heartbeat

-----------------------------------------------------------------------------
(* Claims about one sheet, checked under SpecSheet *)

RECURSIVE UpdatesFrom(_, _)
UpdatesFrom(batch, k) ==
    IF k > Len(batch) THEN <<>>
    ELSE batch[k].updates \o UpdatesFrom(batch, k + 1)

ValuesOf(updates) == [i \in DOMAIN updates |-> updates[i].value]

\* the values updates_batch writes to a cell, in the order of emission
Written(cell) ==
    ValuesOf(SelectSeq(UpdatesFrom(updates_batch, 1),
                       LAMBDA u : u.cell = cell))

\* the series of the region whose average is a real integer
RealAverage(item) == ~IsNone(item.stats) /\ IsInt(item.stats.avg)
RankedSeries == {i \in DOMAIN region_results : RealAverage(region_results[i])}
RankOf(i) == rank_map[RowOf(region_results[i].anime)]
AverageOf(i) == region_results[i].stats.avg.int
RanksBefore(i, j) ==
    AverageOf(i) > AverageOf(j) \/ (AverageOf(i) = AverageOf(j) /\ i < j)

\* C6: within one region the ranks are exactly 1..N over the N series whose
\* average is a real integer, by average descending, two series tied on
\* average keeping their input order; any other series gets no rank, and
\* its rank cell is written as empty.
C6_RegionRanks ==
    pc = "planned" =>
        /\ DOMAIN rank_map =
               {RowOf(region_results[i].anime) : i \in RankedSeries}
        /\ {RankOf(i) : i \in RankedSeries} = 1..Cardinality(RankedSeries)
        /\ \A i, j \in RankedSeries : RanksBefore(i, j) => RankOf(i) < RankOf(j)
        /\ \A i \in DOMAIN region_results :
              Truthy(region_results[i].anime.rank_cell) =>
                  Written(region_results[i].anime.rank_cell) =
                      <<IF i \in RankedSeries THEN PyInt(RankOf(i))
                        ELSE EmptyValue>>

\* C6 witness: a region of two series tied on their average; the earlier
\* one is ranked 1, the later one 2, and both ranks are written
C6_Witness ==
    /\ pc = "planned"
    /\ RankedSeries = {1, 2}
    /\ AverageOf(1) = AverageOf(2)
    /\ Written(region_results[1].anime.rank_cell) = <<PyInt(1)>>
    /\ Written(region_results[2].anime.rank_cell) = <<PyInt(2)>>

\* the rows of the sheet with a comprehensive-rank cell, each with the cell
CompCells(sheet) ==
    UNION {{[row |-> RowOf(sheet[g][k]), cell |-> sheet[g][k].comp_rank_cell] :
               k \in {n \in DOMAIN sheet[g] :
                         Truthy(sheet[g][n].comp_rank_cell)}} :
           g \in DOMAIN sheet}

AccumulatedTotal(row) == DictGet(global_avg_sum_map, row, 0)

\* C7 as claimed: after all regions of a sheet are processed without quota
\* exhaustion, only rows with a positive accumulated total are given a
\* comprehensive rank, and every row with a comprehensive-rank cell and a
\* zero or absent accumulated total gets an update writing the empty value
\* to that cell.
C7_ComprehensiveRankOrCleared ==
    (pc = "write" /\ ~quota_exceeded) =>
        \A c \in CompCells(sheet_data) :
            /\ (\E i \in DOMAIN Written(c.cell) : IsInt(Written(c.cell)[i]))
                   => AccumulatedTotal(c.row) > 0
            /\ AccumulatedTotal(c.row) = 0 => Written(c.cell) = <<EmptyValue>>

\* the output cells a row has
ConfiguredCells(anime) ==
    {c \in {anime.rank_cell, anime.avg_view_cell, anime.total_view_cell,
            anime.first_view_cell, anime.ep_count_cell} : Truthy(c)}

IsLastWritten(cell, value) ==
    /\ Len(Written(cell)) > 0
    /\ Written(cell)[Len(Written(cell))] = value

\* C8 as claimed: for a series whose playlist lookup returned the removed
\* signal, the row's plan sets each of its rank, average, total,
\* first-episode and episode-count cells to the "delisted" marker, the
\* series gets no region rank and adds nothing to the accumulator (seen in
\* the first region, where nothing else has been added for its row).
C8_RemovedMarksEveryCell ==
    pc = "planned" =>
        \A i \in DOMAIN region_results :
            region_results[i].stats = RemovedResult =>
                /\ \A c \in ConfiguredCells(region_results[i].anime) :
                       IsLastWritten(c, Delisted)
                /\ RowOf(region_results[i].anime) \notin DOMAIN rank_map
                /\ region_i = 1 =>
                       ~DictHas(global_avg_sum_map,
                                RowOf(region_results[i].anime))

\* the episode-count cells of the sheet
EpCells(sheet) ==
    UNION {{sheet[g][k].ep_count_cell :
               k \in {n \in DOMAIN sheet[g] :
                         Truthy(sheet[g][n].ep_count_cell)}} :
           g \in DOMAIN sheet}

Increasing(values) ==
    /\ \A i \in DOMAIN values : IsInt(values[i])
    /\ \A i, j \in DOMAIN values : i < j => values[i].int < values[j].int

\* the values emitted for each row so far increase, none above the watermark
EpValuesIncrease ==
    \A c \in EpCells(sheet_data) :
        /\ Increasing(Written(c))
        /\ \A i \in DOMAIN Written(c) :
              Written(c)[i].int <= DictGet(row_max_ep_map, c.row, 0)

\* within a sheet cycle a step lowers no watermark, and a value it emits
\* for a row is above the row's watermark before the step
WatermarkRises ==
    (Len(sheet_data) > 0 /\ sheet_data' = sheet_data) =>
        /\ \A row \in DOMAIN row_max_ep_map.val :
              DictGet(row_max_ep_map', row, 0) >= row_max_ep_map.val[row]
        /\ \A c \in EpCells(sheet_data) :
              Len(Written(c)') > Len(Written(c)) =>
                  \A i \in (Len(Written(c)) + 1)..Len(Written(c)') :
                      Written(c)'[i].int > DictGet(row_max_ep_map, c.row, 0)

\* C9: within one sheet cycle the per-row episode-count watermark never
\* decreases, an episode-count update is emitted for a row only when the
\* region's valid_episode_count is above the maximum seen so far for the
\* row, and so the values emitted for a row are strictly increasing in the
\* order of emission.
C9_EpisodeWatermark == []EpValuesIncrease /\ [][WatermarkRises]_vars

\* C9 witness: a row of two regions, 1 episode in the first and 2 in the
\* second: 1, then 2 is emitted for it, and its watermark is 2
C9_Witness ==
    /\ pc = "write"
    /\ \E c \in EpCells(sheet_data) :
          /\ Written(c) = <<PyInt(1), PyInt(2)>>
          /\ DictGet(row_max_ep_map, c.row, 0) = 2

\* the plans a step appends to updates_batch for a row
NewPlansFor(row) ==
    SelectSeq(SubSeq(updates_batch', Len(updates_batch) + 1,
                     Len(updates_batch')),
              LAMBDA plan : plan.target_row = row)

\* the plans of a series without stats: the rank update alone when it has
\* a rank cell, none otherwise
RankOnly(plans, anime) ==
    IF Truthy(anime.rank_cell)
    THEN /\ Len(plans) = 1
         /\ Len(plans[1].updates) = 1
         /\ plans[1].updates[1].cell = anime.rank_cell
    ELSE Len(plans) = 0

\* phases 2 and 3 of a region: what they plan for its series without stats
NullStatsPlanned ==
    (pc = "phase1" /\ pc' = "planned") =>
        \A i \in DOMAIN region_results :
            IsNone(region_results[i].stats) =>
                /\ RankOnly(NewPlansFor(RowOf(region_results[i].anime)),
                            region_results[i].anime)
                /\ DictGet(row_max_ep_map', RowOf(region_results[i].anime), 0)
                       = DictGet(row_max_ep_map,
                                 RowOf(region_results[i].anime), 0)

\* phase 1 of a series that gets no stats: nothing is accumulated
NullStatsFetched ==
    (/\ pc = "phase1"
     /\ Len(region_results') = Len(region_results) + 1
     /\ IsNone(region_results'[Len(region_results')].stats))
    => global_avg_sum_map' = global_avg_sum_map

\* C13: for a series whose stats are null (no resolvable playlist link, or
\* quota exhausted), the plan of the row holds the rank-cell update alone
\* when the row has a rank cell and there is no plan otherwise: no average,
\* total, first-episode or episode-count cell is written, the row's
\* episode-count watermark is unchanged, and nothing is added to the
\* cross-region accumulator.
C13_NullStatsRankOnly == [][NullStatsPlanned /\ NullStatsFetched]_vars

\* C13 witness: the first region planned, its first series without stats
\* and with a rank cell: its rank cell is written, its view cells and its
\* episode-count cell are not, and it has no watermark and no total
C13_Witness ==
    /\ pc = "planned"
    /\ region_i = 1
    /\ IsNone(region_results[1].stats)
    /\ Truthy(region_results[1].anime.rank_cell)
    /\ Truthy(region_results[1].anime.ep_count_cell)
    /\ Len(Written(region_results[1].anime.rank_cell)) = 1
    /\ Len(Written(region_results[1].anime.avg_view_cell)) = 0
    /\ Len(Written(region_results[1].anime.ep_count_cell)) = 0
    /\ ~DictHas(row_max_ep_map, RowOf(region_results[1].anime))
    /\ ~DictHas(global_avg_sum_map, RowOf(region_results[1].anime))

====
